---------------------------- MODULE Spec2Model ----------------------------
(***************************************************************************)
(* pbjson-build: the Builder of src/pbjson-build/src/lib.rs.               *)
(*                                                                         *)
(* The Builder collects registered descriptors and options, and generate   *)
(* walks the registered types, filters them by include / exclude prefixes, *)
(* opens one output unit per package and hands every type to the enum or   *)
(* message generator.                                                      *)
(*                                                                         *)
(* Strings are sequences of one-character strings, so that splitting a     *)
(* dotted path into components is computed, not assumed.                   *)
(***************************************************************************)
EXTENDS Integers, Sequences, FiniteSets, TLC

VARIABLES
    descriptors,            \* Builder.descriptors : the DescriptorSet, in iteration order
    exclude,                \* Builder.exclude : Vec<String>
    out_dir,                \* Builder.out_dir : Option<PathBuf>
    extern_paths,           \* Builder.extern_paths : Vec<(String, String)>
    retain_enum_prefix,
    ignore_unknown_fields,
    btree_map_paths,        \* Builder.btree_map_paths : Vec<String>
    emit_fields,
    emit_enum_fields,
    emit_repeated,
    emit_empty_string,
    use_integers_for_enums,
    preserve_proto_field_names,
    strip_enum_vairant_prefix_and_to_lowercase,
    enum_prefixes_to_keep,  \* Builder.enum_prefixes_to_keep : HashSet<String>
    excluded,               \* history: every prefix ever passed to exclude
    out                     \* what the last call returned and the calls it made

vars == << descriptors, exclude, out_dir, extern_paths, retain_enum_prefix,
           ignore_unknown_fields, btree_map_paths, emit_fields, emit_enum_fields,
           emit_repeated, emit_empty_string, use_integers_for_enums,
           preserve_proto_field_names, strip_enum_vairant_prefix_and_to_lowercase,
           enum_prefixes_to_keep, excluded, out >>

-----------------------------------------------------------------------------
(* Bounds of the model                                                     *)

MaxConfig == 2      \* option entries held by the Builder: excluded prefixes,
                    \* extern paths and the other options that are set
MaxInclude == 2     \* length of the prefix list handed to generate / build

-----------------------------------------------------------------------------
(* Option<T> and Result<T>                                                 *)

None == [some |-> FALSE]
Some(v) == [some |-> TRUE, val |-> v]
is_some(o) == o.some

Ok(v) == [ok |-> TRUE, val |-> v]
Err(e) == [ok |-> FALSE, err |-> e]

Last(s) == s[Len(s)]

SeqsUpTo(S, n) == UNION { [1..k -> S] : k \in 0..n }

IsPrefixOf(p, s) == Len(p) <= Len(s) /\ \A i \in 1..Len(p) : p[i] = s[i]

-----------------------------------------------------------------------------
(* Dotted paths                                                            *)

Dot == "."

\* str::split('.') : the components of a dotted string
RECURSIVE Split(_)
Split(s) ==
    IF s = << >> THEN << << >> >>
    ELSE LET rest == Split(Tail(s)) IN
         IF Head(s) = Dot THEN << << >> >> \o rest
         ELSE << << Head(s) >> \o Head(rest) >> \o Tail(rest)

\* the dotted string of a list of components, each preceded by a dot
RECURSIVE Dotted(_)
Dotted(cs) == IF cs = << >> THEN << >> ELSE << Dot >> \o Head(cs) \o Dotted(Tail(cs))

\* Package::new : the package of a file, from its dotted name (no leading dot)
PackageNew(s) == Split(s)

\* TypePath : a package and the names of the type inside it
TypePathNew(package) == [package |-> package, path |-> << >>]
Child(t, name) == [t EXCEPT !.path = Append(@, name)]
TypeComponents(t) == t.package \o t.path
TypeString(t) == Dotted(TypeComponents(t))
package(t) == t.package

\* TypePath::prefix_match : the prefix's components lead the type's components
prefix_match(t, prefix) ==
    LET pc == Split(prefix)
        tc == Split(TypeString(t))
    IN  IF IsPrefixOf(pc, tc) THEN Some(Len(prefix)) ELSE None


-----------------------------------------------------------------------------
(* The inputs the model draws from                                         *)

\* dotted strings
S_a == << ".", "a" >>
S_ab == << ".", "a", ".", "b" >>
S_abC == << ".", "a", ".", "b", ".", "C" >>
S_abCN == << ".", "a", ".", "b", ".", "C", ".", "N" >>
S_adE == << ".", "a", ".", "d", ".", "E" >>
S_g == << ".", "g" >>
S_gT == << ".", "g", ".", "T" >>
S_x == << ":", ":", "x" >>
S_y == << ":", ":", "y" >>
S_out == << "/", "o" >>
S_env == << "/", "e" >>

\* a message of a file: DescriptorProto
MessageProto(name, rev, fields, nested, enums, map_entry) ==
    [name |-> name, rev |-> rev, field |-> fields, nested_type |-> nested,
     enum_type |-> enums, map_entry |-> map_entry]

\* an enum of a file: EnumDescriptorProto
EnumProto(name, rev) == [name |-> name, rev |-> rev]

\* package a.b : message C with a map field (entry type C.N) and a field of
\* type .g.T, and enum CK
File1 ==
    [package |-> << "a", ".", "b" >>,
     message_type |->
        << MessageProto(<< "C" >>, 1, << S_abCN, S_gT >>,
                        << MessageProto(<< "N" >>, 1, << >>, << >>, << >>, TRUE) >>,
                        << >>, FALSE) >>,
     enum_type |-> << EnumProto(<< "C", "K" >>, 1) >>]

\* package a.d : enum E
File2 ==
    [package |-> << "a", ".", "d" >>,
     message_type |-> << >>,
     enum_type |-> << EnumProto(<< "E" >>, 1) >>]

\* package a.b again : another message C, with a field of type .a.d.E
File3 ==
    [package |-> << "a", ".", "b" >>,
     message_type |->
        << MessageProto(<< "C" >>, 2, << S_adE >>, << >>, << >>, FALSE) >>,
     enum_type |-> << >>]

Files == { File1, File2, File3 }

\* an encoded FileDescriptorSet: one chunk per file; Garbage is a chunk that
\* does not decode
Garbage == [tag |-> "garbage"]
Encode(files) == [i \in 1..Len(files) |-> [tag |-> "file", file |-> files[i]]]

EncodedSets ==
    { Encode(<< File2, File3 >>),
      Encode(<< File1 >>) \o << Garbage >> }

ExcludePrefixes == { S_ab, S_abC }
IncludePrefixes == { S_a, S_abC }
ExternPaths == { << S_g, S_x >>, << S_gT, S_y >> }
BTreeMapPaths == { S_abC }
EnumPrefixes == { << "C" >> }
OutDirs == { S_out }
EnvOutDir == { None, Some(S_env) }

-----------------------------------------------------------------------------
(* DescriptorSet: qualified name -> descriptor, iterated grouped by package *)

\* Descriptor::Enum / Descriptor::Message
EnumDescriptor(proto) == [kind |-> "Enum", rev |-> proto.rev]
MessageDescriptor(path, proto) ==
    [kind |-> "Message", rev |-> proto.rev, path |-> path,
     field |-> proto.field, map_entry |-> proto.map_entry]

IndexOfPath(set, path) ==
    LET hits == { i \in 1..Len(set) : set[i].path = path } IN
    IF hits = {} THEN 0 ELSE CHOOSE i \in hits : TRUE

LastOfPackage(set, pkg) ==
    LET hits == { i \in 1..Len(set) : set[i].path.package = pkg } IN
    IF hits = {} THEN 0 ELSE CHOOSE i \in hits : \A j \in hits : j <= i

InsertAt(s, i, e) == SubSeq(s, 1, i) \o << e >> \o SubSeq(s, i + 1, Len(s))

\* a registry that keeps every registration
register_descriptor_appending(set, path, descriptor) ==
    Append(set, [path |-> path, descriptor |-> descriptor])

\* DescriptorSet::register_descriptor : a name already registered has its
\* descriptor overwritten in place; a new name joins the entries of its package
register_descriptor(set, path, descriptor) ==
    LET at == IndexOfPath(set, path)
        entry == [path |-> path, descriptor |-> descriptor]
        grp == LastOfPackage(set, path.package)
    IN  IF at # 0 THEN [set EXCEPT ![at] = entry]
        ELSE IF grp # 0 THEN InsertAt(set, grp, entry)
        ELSE Append(set, entry)

RECURSIVE register_enums(_, _, _)
register_enums(set, parent, protos) ==
    IF protos = << >> THEN set
    ELSE register_enums(
            register_descriptor(set, Child(parent, Head(protos).name),
                                EnumDescriptor(Head(protos))),
            parent, Tail(protos))

\* DescriptorSet::register_message : the message, then every type nested in it
RECURSIVE register_messages(_, _, _)
register_messages(set, parent, protos) ==
    IF protos = << >> THEN set
    ELSE LET proto == Head(protos)
             path == Child(parent, proto.name)
             s1 == register_descriptor(set, path, MessageDescriptor(path, proto))
             s2 == register_messages(s1, path, proto.nested_type)
             s3 == register_enums(s2, path, proto.enum_type)
         IN  register_messages(s3, parent, Tail(protos))

\* DescriptorSet::register_file_descriptor
set_register_file_descriptor(set, file) ==
    LET path == TypePathNew(PackageNew(file.package))
        s1 == register_messages(set, path, file.message_type)
    IN  register_enums(s1, path, file.enum_type)

RECURSIVE register_files(_, _)
register_files(set, files) ==
    IF files = << >> THEN set
    ELSE register_files(set_register_file_descriptor(set, Head(files)), Tail(files))

\* decoding an encoded FileDescriptorSet: all of it, or an error
Decode(bytes) ==
    IF \E i \in 1..Len(bytes) : bytes[i].tag # "file"
    THEN Err("MalformedInput")
    ELSE Ok([i \in 1..Len(bytes) |-> bytes[i].file])

\* DescriptorSet::register_encoded : decode first, register only what decoded
register_decoded(set, decoded) ==
    IF decoded.ok
    THEN [set |-> register_files(set, decoded.val), result |-> Ok("unit")]
    ELSE [set |-> set, result |-> Err(decoded.err)]

register_encoded(set, bytes) == register_decoded(set, Decode(bytes))

\* DescriptorSet::iter
iter(set) == set

-----------------------------------------------------------------------------
(* Resolver, message normalizer and generators, as generate uses them      *)

\* Resolver::new
ResolverNew(externs, pkg, retain, strip, keep) ==
    [extern_paths |-> externs, package |-> pkg, retain_enum_prefix |-> retain,
     strip_enum_vairant_prefix_and_to_lowercase |-> strip,
     enum_prefixes_to_keep |-> keep]

\* whether dotted name `name` lies under the dotted prefix `prefix`, by components
NameUnder(name, prefix) == IsPrefixOf(Split(prefix), Split(name))

\* the override table is searched in order; the first matching entry is used
RECURSIVE FirstOverride(_, _)
FirstOverride(externs, name) ==
    IF externs = << >> THEN None
    ELSE IF NameUnder(name, Head(externs)[1]) THEN Some(Head(externs))
    ELSE FirstOverride(Tail(externs), name)

\* Resolver: the identifier of a referenced type
resolve_type_reference(resolver, field) ==
    LET over == FirstOverride(resolver.extern_paths, field.type_name) IN
    IF is_some(over)
    THEN Ok([type_name |-> field.type_name, extern |-> TRUE, rust |-> over.val[2]])
    ELSE IF field.registered
    THEN Ok([type_name |-> field.type_name, extern |-> FALSE,
             rust |-> resolver.package])
    ELSE Err([kind |-> "UnresolvedType", on |-> field.type_name])

\* the registered descriptor of a dotted name
Lookup(set, name) ==
    LET hits == { i \in 1..Len(set) : TypeString(set[i].path) = name } IN
    IF hits = {} THEN None ELSE Some(set[CHOOSE i \in hits : TRUE].descriptor)

\* one field of the resolved message: a field whose type is a map-entry message
\* becomes a map field
ResolveField(set, type_name) ==
    LET d == Lookup(set, type_name)
        entry == is_some(d) /\ d.val.kind = "Message" /\ d.val.map_entry
    IN  [type_name |-> type_name, registered |-> is_some(d),
         kind |-> IF entry THEN "Map" ELSE "Type"]

\* message::resolve_message : None for a synthetic map-entry message
resolve_message(set, descriptor) ==
    IF descriptor.map_entry THEN None
    ELSE Some([path |-> descriptor.path, rev |-> descriptor.rev,
               fields |-> [i \in 1..Len(descriptor.field) |->
                              ResolveField(set, descriptor.field[i])]])

\* a writer: the text written so far, and the names of the types whose write fails
Writer(fail_on) == [text |-> << >>, fail_on |-> fail_on]

Write(writer, path, artifact) ==
    IF TypeString(path) \in writer.fail_on
    THEN [result |-> Err([kind |-> "io", on |-> TypeString(path)]),
          writer |-> writer]
    ELSE [result |-> Ok("unit"), writer |-> [writer EXCEPT !.text = Append(@, artifact)]]

\* generator::generate_enum
generate_enum(resolver, path, descriptor, writer, integers) ==
    Write(writer, path,
          [fn |-> "generate_enum", path |-> path, rev |-> descriptor.rev,
           resolver |-> resolver, use_integers_for_enums |-> integers])

\* generator::generate_message : every field's type is resolved, then the
\* implementation is written
write_message(resolver, message, writer, options, refs) ==
    LET bad == { i \in 1..Len(refs) : ~refs[i].ok } IN
    IF bad # {}
    THEN [result |-> Err(refs[CHOOSE i \in bad : \A j \in bad : i <= j].err),
          writer |-> writer]
    ELSE Write(writer, message.path,
               [fn |-> "generate_message", path |-> message.path,
                rev |-> message.rev, resolver |-> resolver,
                fields |-> [i \in 1..Len(refs) |-> refs[i].val],
                options |-> options])

generate_message(resolver, message, writer, options) ==
    write_message(resolver, message, writer, options,
                  [i \in 1..Len(message.fields) |->
                      IF message.fields[i].kind = "Map" THEN Ok(message.fields[i])
                      ELSE resolve_type_reference(resolver, message.fields[i])])

-----------------------------------------------------------------------------
(* Builder::generate                                                       *)

\* the Builder, as generate reads it
Self ==
    [descriptors |-> descriptors, exclude |-> exclude, out_dir |-> out_dir,
     extern_paths |-> extern_paths, retain_enum_prefix |-> retain_enum_prefix,
     ignore_unknown_fields |-> ignore_unknown_fields,
     btree_map_paths |-> btree_map_paths, emit_fields |-> emit_fields,
     emit_enum_fields |-> emit_enum_fields, emit_repeated |-> emit_repeated,
     emit_empty_string |-> emit_empty_string,
     use_integers_for_enums |-> use_integers_for_enums,
     preserve_proto_field_names |-> preserve_proto_field_names,
     strip_enum_vairant_prefix_and_to_lowercase |->
        strip_enum_vairant_prefix_and_to_lowercase,
     enum_prefixes_to_keep |-> enum_prefixes_to_keep]

\* a filter that forgets the exclusion list
filter_ignoring_exclude(self, prefixes, t) ==
    \E i \in 1..Len(prefixes) : is_some(prefix_match(t, prefixes[i]))

\* a filter that compares the dotted strings, not their components
filter_by_string(self, prefixes, t) ==
    /\ \E i \in 1..Len(prefixes) : IsPrefixOf(prefixes[i], TypeString(t))
    /\ ~\E i \in 1..Len(self.exclude) : IsPrefixOf(self.exclude[i], TypeString(t))

\* the closure handed to descriptors.iter().filter(..)
filter(self, prefixes, t) ==
    LET exclude_ == \E i \in 1..Len(self.exclude) :
                        is_some(prefix_match(t, self.exclude[i]))
        include == \E i \in 1..Len(prefixes) :
                        is_some(prefix_match(t, prefixes[i]))
    IN  include /\ ~exclude_

\* a loop that opens a unit for every type
same_package_never(ret, type_path) == FALSE

\* a loop that keeps writing to the unit it opened first
same_package_always(ret, type_path) == ret # << >>

\* match ret.last_mut() { Some((package, writer)) if package == type_path.package() ..
same_package(ret, type_path) ==
    ret # << >> /\ Last(ret)[1] = package(type_path)

\* the options handed to generate_message
MessageOptions(self) ==
    [ignore_unknown_fields |-> self.ignore_unknown_fields,
     btree_map_paths |-> self.btree_map_paths,
     emit_fields |-> self.emit_fields,
     emit_enum_fields |-> self.emit_enum_fields,
     emit_repeated |-> self.emit_repeated,
     emit_empty_string |-> self.emit_empty_string,
     preserve_proto_field_names |-> self.preserve_proto_field_names]

\* a call generate makes and what it returned: a Result without its value, or
\* whether an Option was Some
Call(fn, arg, ret) == [fn |-> fn, arg |-> arg, ret |-> ret]
Returned(result) == IF result.ok THEN [ok |-> TRUE] ELSE result

\* what one arm of the match did: the callee's result, the writer after it,
\* and the calls made
Arm(g, calls) == [result |-> g.result, writer |-> g.writer, calls |-> calls]

enum_arm(type_path, g) ==
    Arm(g, << Call("generate_enum", type_path, Returned(g.result)) >>)

message_arm(type_path, g) ==
    Arm(g, << Call("resolve_message", type_path, [some |-> TRUE]),
              Call("generate_message", type_path, Returned(g.result)) >>)

\* a match arm that takes a message without a resolved model for an error
if_let_some_or_fail(self, resolver, type_path, writer, message) ==
    IF is_some(message)
    THEN message_arm(type_path,
                     generate_message(resolver, message.val, writer,
                                      MessageOptions(self)))
    ELSE [result |-> Err([kind |-> "Other", on |-> TypeString(type_path)]),
          writer |-> writer,
          calls |-> << Call("resolve_message", type_path, None) >>]

\* if let Some(message) = resolve_message(..) { generate_message(..)? }
if_let_some(self, resolver, type_path, writer, message) ==
    IF is_some(message)
    THEN message_arm(type_path,
                     generate_message(resolver, message.val, writer,
                                      MessageOptions(self)))
    ELSE [result |-> Ok("unit"), writer |-> writer,
          calls |-> << Call("resolve_message", type_path, None) >>]

\* match descriptor { Enum => generate_enum(..)?, Message => if let Some(..) .. }
generate_descriptor(self, resolver, type_path, descriptor, writer) ==
    IF descriptor.kind = "Enum"
    THEN enum_arm(type_path,
                  generate_enum(resolver, type_path, descriptor, writer,
                                self.use_integers_for_enums))
    ELSE if_let_some(self, resolver, type_path, writer,
                     resolve_message(self.descriptors, descriptor))

\* the loop's state after the body ran on the unit at the end of ret
after_body(ret, calls, g) ==
    [ret |-> [ret EXCEPT ![Len(ret)] = << ret[Len(ret)][1], g.writer >>],
     calls |-> calls \o g.calls,
     err |-> IF g.result.ok THEN None ELSE Some(g.result.err)]

\* the body of the for loop, with the output unit of the type at the end of ret
generate_body(self, ret, calls, entry) ==
    after_body(ret, calls,
        generate_descriptor(self,
            ResolverNew(self.extern_paths, package(entry.path),
                        self.retain_enum_prefix,
                        self.strip_enum_vairant_prefix_and_to_lowercase,
                        self.enum_prefixes_to_keep),
            entry.path, entry.descriptor, Last(ret)[2]))

\* ret.push((package.clone(), write_factory(package)?))
open_unit(self, st, entry, made) ==
    IF made.ok
    THEN generate_body(self, Append(st.ret, << package(entry.path), made.val >>),
                       Append(st.calls,
                              Call("write_factory", package(entry.path),
                                   Returned(made))),
                       entry)
    ELSE [ret |-> st.ret,
          calls |-> Append(st.calls,
                           Call("write_factory", package(entry.path),
                                Returned(made))),
          err |-> Some(made.err)]

\* one iteration of the for loop; st.err is the error a `?` returned with
generate_step(self, write_factory, st, entry) ==
    IF is_some(st.err) THEN st
    ELSE IF same_package(st.ret, entry.path)
    THEN generate_body(self, st.ret, st.calls, entry)
    ELSE open_unit(self, st, entry, write_factory[package(entry.path)])

RECURSIVE generate_loop(_, _, _, _)
generate_loop(self, write_factory, st, entries) ==
    IF entries = << >> THEN st
    ELSE generate_loop(self, write_factory,
                       generate_step(self, write_factory, st, Head(entries)),
                       Tail(entries))

\* a generate that drops the error and hands back what it has
generate_return_swallowing(st) == Ok(st.ret)

\* what generate returns: the error of the first failing `?`, else Ok(ret)
generate_return(st) ==
    IF is_some(st.err) THEN Err(st.err.val) ELSE Ok(st.ret)

generate_finish(st) == [result |-> generate_return(st), calls |-> st.calls]

\* Builder::generate : the value returned and the calls made
generate(self, prefixes, write_factory) ==
    generate_finish(
        generate_loop(self, write_factory,
                      [ret |-> << >>, calls |-> << >>, err |-> None],
                      SelectSeq(iter(self.descriptors),
                                LAMBDA e : filter(self, prefixes, e.path))))

-----------------------------------------------------------------------------
(* The output units a caller can hand to generate                          *)

Packages == { PackageNew(f.package) : f \in Files }

TypePaths ==
    { e.path : e \in UNION { { s[i] : i \in 1..Len(s) } :
                 s \in { set_register_file_descriptor(<< >>, f) : f \in Files } } }

\* what can go wrong in the caller's output units: creating the unit of a
\* package, writing the implementation of a type, flushing the unit of a package
NoFault == [at |-> "none", on |-> << >>]
Faults ==
    { NoFault }
    \cup { [at |-> "write_factory", on |-> Dotted(p)] : p \in Packages }
    \cup { [at |-> "write", on |-> TypeString(t)] : t \in TypePaths }
    \cup { [at |-> "flush", on |-> Dotted(p)] : p \in Packages }

\* a write_factory that creates in-memory units
WriteFactory(fault) ==
    [p \in Packages |->
        IF fault = [at |-> "write_factory", on |-> Dotted(p)]
        THEN Err([kind |-> "io", on |-> Dotted(p)])
        ELSE Ok(Writer(IF fault.at = "write" THEN { fault.on } ELSE {}))]

-----------------------------------------------------------------------------
(* Builder::build                                                          *)

SerdeRs == << ".", "s", "e", "r", "d", "e", ".", "r", "s" >>

\* format!("{}.serde.rs", package) under the output directory
FileName(output, pkg) == output \o << "/" >> \o Tail(Dotted(pkg)) \o SerdeRs

\* the write_factory of build: OpenOptions .. open(&output), in a BufWriter
FileFactory(output, fault) ==
    [p \in Packages |->
        IF fault = [at |-> "write_factory", on |-> Dotted(p)]
        THEN Err([kind |-> "io", on |-> Dotted(p)])
        ELSE Ok([text |-> << >>,
                 fail_on |-> IF fault.at = "write" THEN { fault.on } ELSE {},
                 file |-> FileName(output, p)])]

\* for (_, mut writer) in writers { writer.flush()?; }
RECURSIVE flush_all(_, _, _)
flush_all(writers, fault, flushed) ==
    IF writers = << >> THEN [result |-> Ok("unit"), flushed |-> flushed]
    ELSE IF fault = [at |-> "flush", on |-> Dotted(Head(writers)[1])]
    THEN [result |-> Err([kind |-> "io", on |-> Head(writers)[2].file]),
          flushed |-> flushed]
    ELSE flush_all(Tail(writers), fault,
                   Append(flushed, [package |-> Head(writers)[1],
                                    file |-> Head(writers)[2].file,
                                    text |-> Head(writers)[2].text]))

flushed_(calls, f) == [result |-> f.result, calls |-> calls, flushed |-> f.flushed]

\* let writers = self.generate(prefixes, write_factory)?; then the flushes
build_finish(g, fault) ==
    IF ~g.result.ok
    THEN [result |-> Err(g.result.err), calls |-> g.calls, flushed |-> << >>]
    ELSE flushed_(g.calls, flush_all(g.result.val, fault, << >>))

\* self.out_dir, else the OUT_DIR environment variable, else an error
output_dir(self, env) ==
    IF is_some(self.out_dir) THEN Ok(self.out_dir.val)
    ELSE IF is_some(env) THEN Ok(env.val)
    ELSE Err([kind |-> "Other", on |-> << "OUT_DIR" >>])

build_in(self, prefixes, output, fault) ==
    IF ~output.ok
    THEN [result |-> Err(output.err), calls |-> << >>, flushed |-> << >>]
    ELSE build_finish(generate(self, prefixes, FileFactory(output.val, fault)),
                      fault)

\* Builder::build : the value returned, the calls made, the files flushed
build(self, prefixes, env, fault) ==
    build_in(self, prefixes, output_dir(self, env), fault)

-----------------------------------------------------------------------------
(* The Builder's methods                                                   *)

\* out after a call that returns the Builder itself
NoCall == [op |-> "none"]

B(b) == IF b THEN 1 ELSE 0

\* how many option entries the Builder holds
ConfigSize ==
    Len(exclude) + Len(extern_paths) + Len(btree_map_paths)
    + Cardinality(enum_prefixes_to_keep) + B(is_some(out_dir))
    + B(retain_enum_prefix) + B(ignore_unknown_fields) + B(emit_fields)
    + B(emit_enum_fields) + B(emit_repeated) + B(emit_empty_string)
    + B(use_integers_for_enums) + B(preserve_proto_field_names)
    + B(strip_enum_vairant_prefix_and_to_lowercase)

\* Builder::new
Init ==
    /\ descriptors = << >>
    /\ exclude = << >>
    /\ out_dir = None
    /\ extern_paths = << >>
    /\ retain_enum_prefix = FALSE
    /\ ignore_unknown_fields = FALSE
    /\ btree_map_paths = << >>
    /\ emit_fields = FALSE
    /\ emit_enum_fields = FALSE
    /\ emit_repeated = FALSE
    /\ emit_empty_string = FALSE
    /\ use_integers_for_enums = FALSE
    /\ preserve_proto_field_names = FALSE
    /\ strip_enum_vairant_prefix_and_to_lowercase = FALSE
    /\ enum_prefixes_to_keep = {}
    /\ excluded = {}
    /\ out = NoCall

Flags == << retain_enum_prefix, ignore_unknown_fields, emit_fields, emit_enum_fields,
            emit_repeated, emit_empty_string, use_integers_for_enums,
            preserve_proto_field_names, strip_enum_vairant_prefix_and_to_lowercase >>

\* everything the Builder holds
Builder == << descriptors, exclude, out_dir, extern_paths, btree_map_paths,
              enum_prefixes_to_keep, excluded, Flags >>

out_dir_(path) ==
    /\ is_some(out_dir) \/ ConfigSize < MaxConfig
    /\ out_dir' = Some(path)
    /\ out' = NoCall
    /\ UNCHANGED << descriptors, exclude, extern_paths, btree_map_paths,
                    enum_prefixes_to_keep, excluded, Flags >>

\* a register_descriptors that drops the error of register_encoded
register_descriptors_unchecked(set, bytes) ==
    [set |-> register_encoded(set, bytes).set, result |-> Ok("self")]

\* self.descriptors.register_encoded(descriptors)? ; Ok(self)
try_registered(r) ==
    [set |-> r.set, result |-> IF r.result.ok THEN Ok("self") ELSE Err(r.result.err)]

register_descriptors_call(set, bytes) == try_registered(register_encoded(set, bytes))

RegisterOut(bytes, r, before) ==
    [op |-> "register_descriptors", bytes |-> bytes, result |-> r.result,
     before |-> before]

register_descriptors(bytes) ==
    /\ descriptors' = register_descriptors_call(descriptors, bytes).set
    /\ out' = RegisterOut(bytes, register_descriptors_call(descriptors, bytes),
                          descriptors)
    /\ UNCHANGED << exclude, out_dir, extern_paths, btree_map_paths,
                    enum_prefixes_to_keep, excluded, Flags >>

register_file_descriptor(file) ==
    /\ descriptors' = set_register_file_descriptor(descriptors, file)
    /\ out' = NoCall
    /\ UNCHANGED << exclude, out_dir, extern_paths, btree_map_paths,
                    enum_prefixes_to_keep, excluded, Flags >>

\* an exclude that replaces the list
exclude_replace(old, prefixes) == prefixes

\* self.exclude.extend(prefixes.into_iter().map(Into::into))
exclude_extend(old, prefixes) == old \o prefixes

exclude_(prefixes) ==
    /\ ConfigSize + Len(prefixes) <= MaxConfig
    /\ exclude' = exclude_extend(exclude, prefixes)
    /\ excluded' = excluded \cup { prefixes[i] : i \in 1..Len(prefixes) }
    /\ out' = NoCall
    /\ UNCHANGED << descriptors, out_dir, extern_paths, btree_map_paths,
                    enum_prefixes_to_keep, Flags >>

\* an extern_path that puts the newest override first
extern_paths_push_front(old, proto_path, rust_path) ==
    << << proto_path, rust_path >> >> \o old

\* self.extern_paths.push((proto_path.into(), rust_path.into()))
extern_paths_push(old, proto_path, rust_path) ==
    Append(old, << proto_path, rust_path >>)

extern_path(proto_path, rust_path) ==
    /\ ConfigSize < MaxConfig
    /\ extern_paths' = extern_paths_push(extern_paths, proto_path, rust_path)
    /\ out' = NoCall
    /\ UNCHANGED << descriptors, exclude, out_dir, btree_map_paths,
                    enum_prefixes_to_keep, excluded, Flags >>

\* a flag that is set stays set; setting one more takes an option entry
SetFlag(flag) == flag \/ ConfigSize < MaxConfig

btree_map(paths) ==
    /\ ConfigSize + Len(paths) <= MaxConfig
    /\ btree_map_paths' = btree_map_paths \o paths
    /\ out' = NoCall
    /\ UNCHANGED << descriptors, exclude, out_dir, extern_paths,
                    enum_prefixes_to_keep, excluded, Flags >>

enum_prefixes_to_keep_(prefixes) ==
    /\ ConfigSize + Cardinality(prefixes \ enum_prefixes_to_keep) <= MaxConfig
    /\ enum_prefixes_to_keep' = enum_prefixes_to_keep \cup prefixes
    /\ out' = NoCall
    /\ UNCHANGED << descriptors, exclude, out_dir, extern_paths, btree_map_paths,
                    excluded, Flags >>

retain_enum_prefix_ ==
    /\ SetFlag(retain_enum_prefix)
    /\ retain_enum_prefix' = TRUE
    /\ out' = NoCall
    /\ UNCHANGED << descriptors, exclude, out_dir, extern_paths,
                    btree_map_paths, enum_prefixes_to_keep, excluded,
                    ignore_unknown_fields, emit_fields, emit_enum_fields,
                    emit_repeated, emit_empty_string, use_integers_for_enums,
                    preserve_proto_field_names,
                    strip_enum_vairant_prefix_and_to_lowercase >>

ignore_unknown_fields_ ==
    /\ SetFlag(ignore_unknown_fields)
    /\ ignore_unknown_fields' = TRUE
    /\ out' = NoCall
    /\ UNCHANGED << descriptors, exclude, out_dir, extern_paths,
                    btree_map_paths, enum_prefixes_to_keep, excluded,
                    retain_enum_prefix, emit_fields, emit_enum_fields,
                    emit_repeated, emit_empty_string, use_integers_for_enums,
                    preserve_proto_field_names,
                    strip_enum_vairant_prefix_and_to_lowercase >>

emit_fields_ ==
    /\ SetFlag(emit_fields)
    /\ emit_fields' = TRUE
    /\ out' = NoCall
    /\ UNCHANGED << descriptors, exclude, out_dir, extern_paths,
                    btree_map_paths, enum_prefixes_to_keep, excluded,
                    retain_enum_prefix, ignore_unknown_fields,
                    emit_enum_fields, emit_repeated, emit_empty_string,
                    use_integers_for_enums, preserve_proto_field_names,
                    strip_enum_vairant_prefix_and_to_lowercase >>

emit_enum_fields_ ==
    /\ SetFlag(emit_enum_fields)
    /\ emit_enum_fields' = TRUE
    /\ out' = NoCall
    /\ UNCHANGED << descriptors, exclude, out_dir, extern_paths,
                    btree_map_paths, enum_prefixes_to_keep, excluded,
                    retain_enum_prefix, ignore_unknown_fields, emit_fields,
                    emit_repeated, emit_empty_string, use_integers_for_enums,
                    preserve_proto_field_names,
                    strip_enum_vairant_prefix_and_to_lowercase >>

emit_repeated_ ==
    /\ SetFlag(emit_repeated)
    /\ emit_repeated' = TRUE
    /\ out' = NoCall
    /\ UNCHANGED << descriptors, exclude, out_dir, extern_paths,
                    btree_map_paths, enum_prefixes_to_keep, excluded,
                    retain_enum_prefix, ignore_unknown_fields, emit_fields,
                    emit_enum_fields, emit_empty_string,
                    use_integers_for_enums, preserve_proto_field_names,
                    strip_enum_vairant_prefix_and_to_lowercase >>

emit_empty_string_ ==
    /\ SetFlag(emit_empty_string)
    /\ emit_empty_string' = TRUE
    /\ out' = NoCall
    /\ UNCHANGED << descriptors, exclude, out_dir, extern_paths,
                    btree_map_paths, enum_prefixes_to_keep, excluded,
                    retain_enum_prefix, ignore_unknown_fields, emit_fields,
                    emit_enum_fields, emit_repeated, use_integers_for_enums,
                    preserve_proto_field_names,
                    strip_enum_vairant_prefix_and_to_lowercase >>

use_integers_for_enums_ ==
    /\ SetFlag(use_integers_for_enums)
    /\ use_integers_for_enums' = TRUE
    /\ out' = NoCall
    /\ UNCHANGED << descriptors, exclude, out_dir, extern_paths,
                    btree_map_paths, enum_prefixes_to_keep, excluded,
                    retain_enum_prefix, ignore_unknown_fields, emit_fields,
                    emit_enum_fields, emit_repeated, emit_empty_string,
                    preserve_proto_field_names,
                    strip_enum_vairant_prefix_and_to_lowercase >>

preserve_proto_field_names_ ==
    /\ SetFlag(preserve_proto_field_names)
    /\ preserve_proto_field_names' = TRUE
    /\ out' = NoCall
    /\ UNCHANGED << descriptors, exclude, out_dir, extern_paths,
                    btree_map_paths, enum_prefixes_to_keep, excluded,
                    retain_enum_prefix, ignore_unknown_fields, emit_fields,
                    emit_enum_fields, emit_repeated, emit_empty_string,
                    use_integers_for_enums,
                    strip_enum_vairant_prefix_and_to_lowercase >>

strip_enum_vairant_prefix_and_to_lowercase_ ==
    /\ SetFlag(strip_enum_vairant_prefix_and_to_lowercase)
    /\ strip_enum_vairant_prefix_and_to_lowercase' = TRUE
    /\ out' = NoCall
    /\ UNCHANGED << descriptors, exclude, out_dir, extern_paths,
                    btree_map_paths, enum_prefixes_to_keep, excluded,
                    retain_enum_prefix, ignore_unknown_fields, emit_fields,
                    emit_enum_fields, emit_repeated, emit_empty_string,
                    use_integers_for_enums, preserve_proto_field_names >>

\* generate and build read the Builder and leave it as it is: a second call
\* right after the first returns what a first call can return, so the model
\* takes the call after generate or build to be one that changes the Builder
Observed == out.op \in { "generate", "build" }

BuildOut(prefixes, r) ==
    [op |-> "build", prefixes |-> prefixes, result |-> r.result,
     calls |-> r.calls, flushed |-> r.flushed]

build_(prefixes, env, fault) ==
    /\ ~Observed
    /\ out' = BuildOut(prefixes, build(Self, prefixes, env, fault))
    /\ UNCHANGED Builder

GenerateOut(prefixes, r) ==
    [op |-> "generate", prefixes |-> prefixes, result |-> r.result,
     calls |-> r.calls]

generate_(prefixes, fault) ==
    /\ ~Observed
    /\ out' = GenerateOut(prefixes, generate(Self, prefixes, WriteFactory(fault)))
    /\ UNCHANGED Builder

\* registration, filters, extern paths, output directory, generate and build
Next ==
    \/ \E path \in OutDirs : out_dir_(path)
    \/ \E bytes \in EncodedSets : register_descriptors(bytes)
    \/ \E file \in Files : register_file_descriptor(file)
    \/ \E prefixes \in SeqsUpTo(ExcludePrefixes, MaxConfig) : exclude_(prefixes)
    \/ \E e \in ExternPaths : extern_path(e[1], e[2])
    \/ \E prefixes \in SeqsUpTo(IncludePrefixes, MaxInclude), env \in EnvOutDir,
          fault \in Faults : build_(prefixes, env, fault)
    \/ \E prefixes \in SeqsUpTo(IncludePrefixes, MaxInclude), fault \in Faults :
          generate_(prefixes, fault)

Spec == Init /\ [][Next]_vars

\* every configuration method, registration of decoded files, and generate
NextOptions ==
    \/ \E path \in OutDirs : out_dir_(path)
    \/ \E file \in Files : register_file_descriptor(file)
    \/ \E prefixes \in SeqsUpTo(ExcludePrefixes, MaxConfig) : exclude_(prefixes)
    \/ retain_enum_prefix_
    \/ \E e \in ExternPaths : extern_path(e[1], e[2])
    \/ ignore_unknown_fields_
    \/ \E paths \in SeqsUpTo(BTreeMapPaths, MaxConfig) : btree_map(paths)
    \/ emit_fields_
    \/ emit_enum_fields_
    \/ emit_repeated_
    \/ emit_empty_string_
    \/ use_integers_for_enums_
    \/ preserve_proto_field_names_
    \/ strip_enum_vairant_prefix_and_to_lowercase_
    \/ \E prefixes \in SUBSET EnumPrefixes : enum_prefixes_to_keep_(prefixes)
    \/ \E prefixes \in SeqsUpTo(IncludePrefixes, MaxInclude), fault \in Faults :
          generate_(prefixes, fault)

SpecOptions == Init /\ [][NextOptions]_vars

-----------------------------------------------------------------------------
(* What the properties speak of                                            *)

\* a call of generate or build has returned, successfully
Succeeded == Observed /\ out.result.ok

\* prefix is the dotted name of some leading components of the type's name
Leading(prefix, t) ==
    \E k \in 1..Len(TypeComponents(t)) :
        prefix = Dotted(SubSeq(TypeComponents(t), 1, k))

MatchesOne(list, t) == \E i \in 1..Len(list) : Leading(list[i], t)

\* the type passes the include / exclude filter of the observed call
Passes(t) == MatchesOne(out.prefixes, t) /\ ~MatchesOne(exclude, t)

IsRegistered(t) == \E i \in 1..Len(descriptors) : descriptors[i].path = t

IsMapEntry(t) ==
    \E i \in 1..Len(descriptors) :
        /\ descriptors[i].path = t
        /\ descriptors[i].descriptor.kind = "Message"
        /\ descriptors[i].descriptor.map_entry

\* the registered types that pass the filter, in iteration order
PassingTypes ==
    LET idx == SelectSeq([i \in 1..Len(descriptors) |-> i],
                         LAMBDA i : Passes(descriptors[i].path))
    IN  [k \in 1..Len(idx) |-> descriptors[idx[k]].path]

\* the packages of a list of types, each once, in the order first seen
RECURSIVE FirstSeen(_, _)
FirstSeen(types, seen) ==
    IF types = << >> THEN seen
    ELSE FirstSeen(Tail(types),
                   IF \E i \in 1..Len(seen) : seen[i] = Head(types).package
                   THEN seen ELSE Append(seen, Head(types).package))

PassingPackages == FirstSeen(PassingTypes, << >>)

\* the output units of a successful call: handed back by generate, flushed by build
Units ==
    IF out.op = "generate"
    THEN [i \in 1..Len(out.result.val) |->
            [package |-> out.result.val[i][1], text |-> out.result.val[i][2].text]]
    ELSE [i \in 1..Len(out.flushed) |->
            [package |-> out.flushed[i].package, text |-> out.flushed[i].text]]

\* code for the type was written to some output unit of a successful call
Emitted(t) ==
    \E i \in 1..Len(Units) : \E j \in 1..Len(Units[i].text) : Units[i].text[j].path = t

\* build found an output directory
Ran == out.op = "generate" \/ out.result.ok \/ out.result.err.kind # "Other"

CallsOf(fn) == SelectSeq(out.calls, LAMBDA c : c.fn = fn)

TypeC == Child(TypePathNew(PackageNew(File1.package)), << "C" >>)
TypeCN == Child(TypeC, << "N" >>)
TypeCK == Child(TypePathNew(PackageNew(File1.package)), << "C", "K" >>)
TypeE == Child(TypePathNew(PackageNew(File2.package)), << "E" >>)

-----------------------------------------------------------------------------
(* C1: as stated, a successful generate emits code for a registered type    *)
(* exactly when some include prefix matches its name and no exclude prefix  *)
(* does.  A synthetic map-entry message that passes the filter refutes it.  *)
C1_AsStated ==
    Succeeded =>
        \A i \in 1..Len(descriptors) :
            Emitted(descriptors[i].path) <=> Passes(descriptors[i].path)

(* C1, amended: a successful generate emits code for a registered type      *)
(* exactly when some include prefix matches its name, no exclude prefix     *)
(* does, and the type is not a synthetic map-entry message; with            *)
(* exclude = [".a.b"] and include = [".a"], .a.b.C is skipped and .a.d.E is *)
(* generated.                                                              *)
C1_FilterDecidesEmission ==
    Succeeded =>
        /\ \A i \in 1..Len(descriptors) :
              Emitted(descriptors[i].path) <=>
                  (Passes(descriptors[i].path) /\ ~IsMapEntry(descriptors[i].path))
        /\ (exclude = << S_ab >> /\ out.prefixes = << S_a >>) =>
              /\ ~Emitted(TypeC)
              /\ IsRegistered(TypeE) => Emitted(TypeE)

C1_Witness ==
    /\ Succeeded
    /\ exclude = << S_ab >>
    /\ out.prefixes = << S_a >>
    /\ IsRegistered(TypeC)
    /\ IsRegistered(TypeE)
    /\ Emitted(TypeE)
    /\ ~Emitted(TypeC)

-----------------------------------------------------------------------------
(* C2: the output-unit factory is never called for a package without a      *)
(* passing type and never twice for one package; a successful generate      *)
(* called it exactly once for each package with a passing type and returns  *)
(* one unit per such package, in the order the packages are first seen in   *)
(* the registry's iteration; an empty include list yields no unit.          *)
C2_OneUnitPerPackage ==
    Observed =>
        LET opened == CallsOf("write_factory")
            asked == [i \in 1..Len(opened) |-> opened[i].arg]
        IN  /\ IsPrefixOf(asked, PassingPackages)
            /\ out.result.ok =>
                  /\ asked = PassingPackages
                  /\ [i \in 1..Len(Units) |-> Units[i].package] = PassingPackages
            /\ out.prefixes = << >> => out.calls = << >>

C2_Witness ==
    /\ out.op = "generate"
    /\ out.result.ok
    /\ Len(out.result.val) = 2
    /\ Len(PassingTypes) > 2

-----------------------------------------------------------------------------
(* C3: in a successful call, the unit of a package holds the code of the    *)
(* passing types of that package that are not map entries, in the order of  *)
(* the registry's iteration, and of no type of another package.             *)
C3_UnitHoldsItsPackageInOrder ==
    Succeeded =>
        \A i \in 1..Len(Units) :
            [j \in 1..Len(Units[i].text) |-> Units[i].text[j].path]
            = SelectSeq(PassingTypes,
                        LAMBDA t : t.package = Units[i].package /\ ~IsMapEntry(t))

C3_Witness ==
    /\ Succeeded
    /\ \E i \in 1..Len(Units) : Len(Units[i].text) = 2
    /\ Len(Units) = 2

-----------------------------------------------------------------------------
\* the calls of the observed generate that returned an error
Failing ==
    { i \in 1..Len(out.calls) :
        out.calls[i].fn # "resolve_message" /\ ~out.calls[i].ret.ok }

\* the type was handed to its generator, or to the normalizer
Selected(t) ==
    \E i \in 1..Len(out.calls) :
        /\ out.calls[i].fn \in { "generate_enum", "resolve_message" }
        /\ out.calls[i].arg = t

(* C4: when the output-unit factory or a generator returns an error,        *)
(* generate makes no further call, so no later type is processed, and       *)
(* returns that very error and no output unit; build then flushes nothing.  *)
(* When none of them fails, generate succeeds.                              *)
C4_FirstErrorEndsGenerate ==
    (Observed /\ Ran) =>
        /\ \A i \in Failing :
              /\ i = Len(out.calls)
              /\ out.result = out.calls[i].ret
              /\ DOMAIN out.result = { "ok", "err" }
              /\ out.op = "build" => out.flushed = << >>
        /\ (Failing = {} /\ out.op = "generate") => out.result.ok
        /\ (Failing = {} /\ out.op = "build" /\ ~out.result.ok) =>
              Len(out.flushed) < Len(PassingPackages)

C4_Witness ==
    /\ Observed
    /\ \E i \in Failing :
          /\ out.calls[i].fn \in { "generate_enum", "generate_message" }
          /\ i > 2
          /\ \E k \in 1..Len(PassingTypes) :
                /\ ~Selected(PassingTypes[k])
                /\ \E h \in 1..(k - 1) : PassingTypes[h] = out.calls[i].arg

-----------------------------------------------------------------------------
(* C5: a prefix matches a type's name exactly when it is the dotted name of *)
(* some leading components of it, the full name included; ".a.b.C" does    *)
(* not match ".a.b.CK" although it begins that string.  generate selects a  *)
(* type only if an include prefix matches it so and no exclude prefix does, *)
(* and a successful generate selects every such type.                       *)
C5_PrefixesMatchByComponent ==
    /\ \A t \in TypePaths :
          /\ \A prefix \in IncludePrefixes \cup ExcludePrefixes :
                is_some(prefix_match(t, prefix)) <=> Leading(prefix, t)
          /\ is_some(prefix_match(t, TypeString(t)))
    /\ IsPrefixOf(S_abC, TypeString(TypeCK))
    /\ ~is_some(prefix_match(TypeCK, S_abC))
    /\ Observed =>
          \A i \in 1..Len(descriptors) :
              /\ Selected(descriptors[i].path) => Passes(descriptors[i].path)
              /\ (out.result.ok /\ Passes(descriptors[i].path))
                    => Selected(descriptors[i].path)

C5_Witness ==
    /\ Succeeded
    /\ out.prefixes = << S_abC >>
    /\ IsRegistered(TypeCK)
    /\ Selected(TypeC)
    /\ Selected(TypeCN)
    /\ ~Selected(TypeCK)

-----------------------------------------------------------------------------
NoDuplicates(set) ==
    \A i, j \in 1..Len(set) : set[i].path = set[j].path => i = j

\* the files of an encoded set, once decoded
FilesOf(bytes) == Decode(bytes).val

\* file k of the set is the last one in it to declare top-level message m
LastToDeclare(files, k, m) ==
    \A k2 \in (k + 1)..Len(files) :
        files[k2].package = files[k].package =>
            \A m2 \in 1..Len(files[k2].message_type) :
                files[k2].message_type[m2].name # files[k].message_type[m].name

\* how many times code for the type was written to the output units
TimesEmitted(t) ==
    Cardinality({ ij \in UNION { { << i, j >> : j \in 1..Len(Units[i].text) } :
                                   i \in 1..Len(Units) } :
                    Units[ij[1]].text[ij[2]].path = t })

(* C6: the registry never holds a qualified name twice.  Registering a set  *)
(* that can be decoded succeeds also when it declares names already         *)
(* registered, and afterwards each message it declares is registered once,  *)
(* with the descriptor the set gave it.  generate hands each type to its    *)
(* generator at most once and writes its code at most once.                 *)
C6_ReRegistrationOverwrites ==
    /\ NoDuplicates(descriptors)
    /\ (out.op = "register_descriptors" /\ Decode(out.bytes).ok) =>
          /\ out.result.ok
          /\ \A k \in 1..Len(FilesOf(out.bytes)) :
                \A m \in 1..Len(FilesOf(out.bytes)[k].message_type) :
                    LastToDeclare(FilesOf(out.bytes), k, m) =>
                        LET file == FilesOf(out.bytes)[k]
                            path == Child(TypePathNew(PackageNew(file.package)),
                                          file.message_type[m].name)
                        IN  /\ IsRegistered(path)
                            /\ \A i \in 1..Len(descriptors) :
                                  descriptors[i].path = path =>
                                      descriptors[i].descriptor.rev
                                          = file.message_type[m].rev
    /\ Observed =>
          \A t \in TypePaths :
              /\ Cardinality({ i \in 1..Len(out.calls) :
                                  /\ out.calls[i].fn \in { "generate_enum",
                                                           "resolve_message" }
                                  /\ out.calls[i].arg = t }) <= 1
              /\ out.result.ok => TimesEmitted(t) <= 1

C6_Witness ==
    /\ out.op = "register_descriptors"
    /\ out.result.ok
    /\ \E i \in 1..Len(out.before) :
          /\ out.before[i].path = TypeC
          /\ out.before[i].descriptor.rev = 1
    /\ \E i \in 1..Len(descriptors) :
          /\ descriptors[i].path = TypeC
          /\ descriptors[i].descriptor.rev = 2
    /\ Len(descriptors) = Len(out.before) + 1

-----------------------------------------------------------------------------
(* C7: register_descriptors on bytes that cannot be decoded returns an      *)
(* error and leaves the registry as it was, also when a well-formed file    *)
(* precedes the malformed part; a generate after it returns what it would   *)
(* have returned before.                                                    *)
C7_MalformedBytesChangeNothing ==
    (out.op = "register_descriptors" /\ \E i \in 1..Len(out.bytes) : out.bytes[i] = Garbage)
        =>
        /\ ~out.result.ok
        /\ descriptors = out.before
        /\ \A prefixes \in SeqsUpTo(IncludePrefixes, MaxInclude) :
              generate(Self, prefixes, WriteFactory(NoFault))
              = generate([Self EXCEPT !.descriptors = out.before], prefixes,
                         WriteFactory(NoFault))

C7_Witness ==
    /\ out.op = "register_descriptors"
    /\ ~out.result.ok
    /\ out.bytes = Encode(<< File1 >>) \o << Garbage >>
    /\ out.before # << >>
    /\ descriptors = out.before
    /\ ~IsRegistered(TypeCK)

-----------------------------------------------------------------------------
\* the dotted name lies under the dotted prefix: it is the prefix, or the
\* prefix followed by a dot and more
UnderName(prefix, name) == prefix = name \/ IsPrefixOf(prefix \o << Dot >>, name)

\* the position of the first override, in the order of the extern_path calls,
\* that the name lies under; 0 when there is none
FirstHit(name) ==
    LET hits == { i \in 1..Len(extern_paths) : UnderName(extern_paths[i][1], name) }
    IN  IF hits = {} THEN 0 ELSE CHOOSE i \in hits : \A j \in hits : i <= j

\* every reference of the written code is resolved by the first override hit
FirstOverrideWins(artifact) ==
    artifact.fn = "generate_message" =>
        \A k \in 1..Len(artifact.fields) :
            "extern" \in DOMAIN artifact.fields[k] =>
                LET hit == FirstHit(artifact.fields[k].type_name) IN
                IF hit = 0 THEN ~artifact.fields[k].extern
                ELSE /\ artifact.fields[k].extern
                     /\ artifact.fields[k].rust = extern_paths[hit][2]

\* the Resolver of every written type holds the Builder's overrides as they
\* are, and a type is unresolved only when no override is hit
ResolverHoldsOverrides ==
    /\ Succeeded =>
          \A i \in 1..Len(Units) : \A j \in 1..Len(Units[i].text) :
              /\ Units[i].text[j].resolver.extern_paths = extern_paths
              /\ FirstOverrideWins(Units[i].text[j])
    /\ (Observed /\ ~out.result.ok /\ out.result.err.kind = "UnresolvedType")
          => FirstHit(out.result.err.on) = 0

(* C8: a call of extern_path adds its override after those of the earlier   *)
(* calls and changes none of them; the Resolver of every type generate      *)
(* writes holds the list as the Builder holds it, and a reference is        *)
(* resolved by the first override in that order that it lies under, not by  *)
(* the longest.                                                             *)
C8_ExternPathsKeepCallOrder ==
    /\ []ResolverHoldsOverrides
    /\ [][extern_paths' # extern_paths =>
             \E e \in ExternPaths : extern_paths' = Append(extern_paths, e)]_vars

C8_Witness ==
    /\ Succeeded
    /\ extern_paths = << << S_g, S_x >>, << S_gT, S_y >> >>
    /\ \E i \in 1..Len(Units) : \E j \in 1..Len(Units[i].text) :
          /\ Units[i].text[j].path = TypeC
          /\ Units[i].text[j].resolver.extern_paths = extern_paths
          /\ \E k \in 1..Len(Units[i].text[j].fields) :
                /\ Units[i].text[j].fields[k].type_name = S_gT
                /\ Units[i].text[j].fields[k].rust = S_x

-----------------------------------------------------------------------------
\* the calls in which the normalizer returned None
Skipped ==
    { i \in 1..Len(out.calls) :
        out.calls[i].fn = "resolve_message" /\ out.calls[i].ret = None }

\* the type is not the last of those that pass the filter
HasLater(t) ==
    \E h, k \in 1..Len(PassingTypes) : h < k /\ PassingTypes[h] = t

(* C9: when the normalizer returns None for a message, generate does not    *)
(* call the message generator for it and writes nothing for it, raises no   *)
(* error for it, and goes on to the next type that passes the filter.       *)
C9_NoneIsSkippedSilently ==
    Observed =>
        \A i \in Skipped :
            /\ \A j \in 1..Len(out.calls) :
                  out.calls[j].fn = "generate_message"
                      => out.calls[j].arg # out.calls[i].arg
            /\ out.result.ok => ~Emitted(out.calls[i].arg)
            /\ (i = Len(out.calls) /\ out.op = "generate") => out.result.ok
            /\ HasLater(out.calls[i].arg) =>
                  /\ i < Len(out.calls)
                  /\ out.calls[i + 1].fn
                        \in { "write_factory", "generate_enum", "resolve_message" }
                  /\ out.calls[i + 1].arg # out.calls[i].arg

C9_Witness ==
    /\ Succeeded
    /\ \E i \in Skipped :
          /\ out.calls[i].arg = TypeCN
          /\ i < Len(out.calls)
          /\ out.calls[i + 1].fn = "generate_enum"
          /\ out.calls[i + 1].arg = TypeCK
          /\ Emitted(TypeCK)
          /\ ~Emitted(TypeCN)

-----------------------------------------------------------------------------
\* some prefix ever passed to exclude matches the type
EverExcluded(t) == \E prefix \in excluded : Leading(prefix, t)

\* no type under a prefix ever passed to exclude is selected or written
ExcludedStayOut ==
    Observed =>
        \A i \in 1..Len(descriptors) :
            EverExcluded(descriptors[i].path) =>
                /\ ~Selected(descriptors[i].path)
                /\ out.result.ok => ~Emitted(descriptors[i].path)

(* C10: a call of exclude keeps the prefixes of the earlier calls and adds  *)
(* its own after them, and changes nothing else the Builder holds; a type   *)
(* under a prefix passed to any call of exclude is left out by generate.    *)
C10_ExcludeAccumulates ==
    /\ []ExcludedStayOut
    /\ [][exclude' # exclude =>
             /\ \E prefixes \in SeqsUpTo(ExcludePrefixes, MaxConfig) :
                   exclude' = exclude \o prefixes
             /\ UNCHANGED << descriptors, out_dir, extern_paths, btree_map_paths,
                             enum_prefixes_to_keep, Flags >>]_vars

C10_Witness ==
    /\ Succeeded
    /\ exclude = << S_abC, S_ab >>
    /\ out.prefixes = << S_a >>
    /\ IsRegistered(TypeC)
    /\ IsRegistered(TypeCK)
    /\ IsRegistered(TypeE)
    /\ ~Selected(TypeC)
    /\ ~Selected(TypeCK)
    /\ Emitted(TypeE)

=============================================================================
